---- MODULE Spec2Model ----
(***************************************************************************)
(* Document ingestion pipeline and hybrid retrieval engine of the          *)
(* ai-document-search-system backend.                                       *)
(*                                                                          *)
(* Texts are sequences of one-character strings.  Indices into a text are   *)
(* the 0-based indices of the JavaScript source; SubSeq is 1-based, so      *)
(* text.substring(a, b) is SubSeq(text, a + 1, b).                          *)
(***************************************************************************)
EXTENDS Integers, Sequences, FiniteSets, TLC

VARIABLES
    documents,      \* "documents" table: [Docs -> row]
    s3,             \* object storage: [Docs -> text of the stored file]
    chunks,         \* "chunks" table: set of rows
    nextChunkId,    \* id the database gives to the next chunk row
    collections,    \* Qdrant: names of the collections that exist
    points,         \* Qdrant: set of points
    jobs,           \* BullMQ queue 'document-ingestion': [Docs -> job]
    run,            \* the worker's processor: [Docs -> locals of the run]
    chunkOpts,      \* options the worker hands to chunkText
    redelivered,    \* number of re-deliveries of finished jobs so far
    search,         \* SearchService.search: the request in flight
    queries,        \* "queries" table: sequence of rows
    queueJobs,      \* delivery layer seen job by job: set of jobs
    enqueued,       \* delivery layer: number of queue.add calls so far
    ctText,         \* chunkText under test: the text
    ctOpts,         \* chunkText under test: the options
    ctOut,          \* chunkText under test: the outcome
    vectorResults,  \* combineSearchResults under test: semantic list
    keywordResults, \* combineSearchResults under test: lexical list
    fuseLimit,      \* combineSearchResults under test: limit
    fused           \* combineSearchResults under test: the outcome

vars == <<documents, s3, chunks, nextChunkId, collections, points, jobs, run,
          chunkOpts, redelivered, search, queries, queueJobs, enqueued,
          ctText, ctOpts, ctOut,
          vectorResults, keywordResults, fuseLimit, fused>>

pipelineVars == <<documents, s3, chunks, nextChunkId, collections, points,
                  jobs, run, chunkOpts, redelivered>>
chunkTextVars == <<ctText, ctOpts, ctOut>>
fuseVars == <<vectorResults, keywordResults, fuseLimit, fused>>
\* What the pipeline leaves alone.
searchVars == <<search, queries>>
queueVars == <<queueJobs, enqueued>>
aside == <<searchVars, chunkTextVars, fuseVars, queueVars>>

(***************************************************************************)
(* Bounds of the model.                                                     *)
(***************************************************************************)
MaxTextLen == 5        \* longest text handed to chunkText under test
MaxChunkSizeB == 3     \* largest maxChunkSize tried under test
MaxOverlapB == 3       \* largest chunkOverlap tried under test
MaxFileLen == 2        \* longest stored file in the pipeline
MaxRedeliver == 1      \* re-deliveries of a finished job
MaxVector == 3         \* longest semantic list handed to the fusion
MaxKeyword == 3        \* longest lexical list handed to the fusion
MaxLimit == 2          \* largest limit of a search
MaxFuseLimit == 4      \* largest limit handed to the fusion
MaxEnqueue == 3        \* queue.add calls

Min(a, b) == IF a < b THEN a ELSE b
Max(a, b) == IF a > b THEN a ELSE b

\* All sequences over S of length 0..n.
SeqUpTo(S, n) == UNION {[1..k -> S] : k \in 0..n}

(***************************************************************************)
(* Text helpers: String.prototype.trim, lastIndexOf.                        *)
(***************************************************************************)
WhiteSpace == {" ", "\n", "\t", "\r"}

RECURSIVE TrimLeft(_)
TrimLeft(s) ==
    IF s = <<>> \/ Head(s) \notin WhiteSpace THEN s ELSE TrimLeft(Tail(s))

RECURSIVE TrimRight(_)
TrimRight(s) ==
    IF s = <<>> \/ s[Len(s)] \notin WhiteSpace
    THEN s
    ELSE TrimRight(SubSeq(s, 1, Len(s) - 1))

Trim(s) == TrimRight(TrimLeft(s))

\* s.lastIndexOf(sep): the greatest 0-based index at which sep occurs in s,
\* -1 when it does not occur; Len(s) for the empty separator.
LastIndexOf(s, sep) ==
    LET hits == {i \in 0..(Len(s) - Len(sep)) :
                    SubSeq(s, i + 1, i + Len(sep)) = sep}
    IN IF hits = {} THEN -1 ELSE CHOOSE i \in hits : \A j \in hits : j <= i

(***************************************************************************)
(* FileParser.normalizeText.                                                *)
(***************************************************************************)
RECURSIVE ReplaceCRLF(_)
ReplaceCRLF(s) ==
    IF s = <<>> THEN <<>>
    ELSE IF Len(s) >= 2 /\ s[1] = "\r" /\ s[2] = "\n"
         THEN <<"\n">> \o ReplaceCRLF(SubSeq(s, 3, Len(s)))
         ELSE <<Head(s)>> \o ReplaceCRLF(Tail(s))

ReplaceCR(s) == [i \in 1..Len(s) |-> IF s[i] = "\r" THEN "\n" ELSE s[i]]

\* /\n{3,}/g -> "\n\n": a newline is dropped when two newlines precede it.
RECURSIVE CapNewlines(_, _)
CapNewlines(s, seen) ==
    IF s = <<>> THEN <<>>
    ELSE IF Head(s) = "\n"
         THEN IF seen >= 2 THEN CapNewlines(Tail(s), seen)
              ELSE <<"\n">> \o CapNewlines(Tail(s), seen + 1)
         ELSE <<Head(s)>> \o CapNewlines(Tail(s), 0)

\* /[ \t]+/g -> " ".
RECURSIVE CollapseBlanks(_, _)
CollapseBlanks(s, inRun) ==
    IF s = <<>> THEN <<>>
    ELSE IF Head(s) \in {" ", "\t"}
         THEN IF inRun THEN CollapseBlanks(Tail(s), TRUE)
              ELSE <<" ">> \o CollapseBlanks(Tail(s), TRUE)
         ELSE <<Head(s)>> \o CollapseBlanks(Tail(s), FALSE)

normalizeText(text) ==
    Trim(CollapseBlanks(CapNewlines(ReplaceCR(ReplaceCRLF(text)), 0), FALSE))

(***************************************************************************)
(* chunkText (utils/chunking).                                              *)
(***************************************************************************)
DEFAULT_SEPARATORS == << <<"\n", "\n">>, <<"\n">>, <<".", " ">>, <<" ">>, <<>> >>

\* The for loop over the separators: the first separator whose last
\* occurrence in the window lies beyond half of targetSize moves chunkEnd;
\* with none, chunkEnd stays.  "lastIndex > targetSize * 0.5" is compared in
\* integers as 2 * lastIndex > targetSize.
RECURSIVE SplitPoint(_, _, _, _, _, _)
SplitPoint(window, seps, k, targetSize, currentIndex, chunkEnd) ==
    IF k > Len(seps) THEN chunkEnd
    ELSE LET lastIndex == LastIndexOf(window, seps[k])
         IN IF 2 * lastIndex > targetSize
            THEN currentIndex + lastIndex + Len(seps[k])
            ELSE SplitPoint(window, seps, k + 1, targetSize, currentIndex, chunkEnd)

\* chunkEnd of the chunk that starts at currentIndex (lines 43-58).
ChunkEndAt(text, opts, currentIndex) ==
    LET chunkEnd == Min(currentIndex + opts.maxChunkSize, Len(text))
        window == SubSeq(text, currentIndex + 1, chunkEnd)
    IN IF chunkEnd < Len(text)
       THEN SplitPoint(window, opts.separators, 1, opts.maxChunkSize,
                       currentIndex, chunkEnd)
       ELSE chunkEnd

\* A cursor that skips a character after each chunk.
NextIndexMutSkip(text, opts, chunkEnd) ==
    Max(chunkEnd - opts.chunkOverlap, 0) + 1

\* currentIndex after the chunk (lines 68-69).
NextIndex(text, opts, chunkEnd) ==
    Max(chunkEnd - opts.chunkOverlap, 0)

\* The while loop (lines 37-70), run for at most `fuel` iterations.
\* currentIndex after an iteration is a function of currentIndex before it,
\* and the loop runs only while 0 <= currentIndex < Len(text): a run that
\* ends visits pairwise different indices, so it ends within Len(text)
\* iterations.  With fuel = Len(text) + 1, running out of fuel happens
\* exactly when the loop of the source never ends.
RECURSIVE ChunkLoop(_, _, _, _, _)
ChunkLoop(text, opts, currentIndex, acc, fuel) ==
    IF ~(currentIndex < Len(text)) THEN [terminates |-> TRUE, chunks |-> acc]
    ELSE IF fuel = 0 THEN [terminates |-> FALSE, chunks |-> acc]
    ELSE LET chunkEnd == ChunkEndAt(text, opts, currentIndex)
             chunk == [text |-> Trim(SubSeq(text, currentIndex + 1, chunkEnd)),
                       startIndex |-> currentIndex,
                       endIndex |-> chunkEnd,
                       chunkIndex |-> Len(acc)]
         IN ChunkLoop(text, opts, NextIndex(text, opts, chunkEnd),
                      Append(acc, chunk), fuel - 1)

chunkText(text, opts) == ChunkLoop(text, opts, 0, <<>>, Len(text) + 1)

(***************************************************************************)
(* chunkText as a function of its inputs: the inputs are drawn from         *)
(* bounded sets and the function is applied once.                           *)
(***************************************************************************)
TextAlphabet == {"a", " ", "\n"}
NotRun == [terminates |-> FALSE, chunks |-> <<>>, ran |-> FALSE]

ChunkInit ==
    /\ ctText \in SeqUpTo(TextAlphabet, MaxTextLen)
    /\ ctOpts \in [maxChunkSize : 1..MaxChunkSizeB,
                   chunkOverlap : 0..MaxOverlapB,
                   separators : {DEFAULT_SEPARATORS}]
    /\ ctOut = NotRun

RunChunkText ==
    /\ ~ctOut.ran
    /\ LET r == chunkText(ctText, ctOpts)
       IN ctOut' = [terminates |-> r.terminates, chunks |-> r.chunks, ran |-> TRUE]
    /\ UNCHANGED <<ctText, ctOpts, pipelineVars, searchVars, fuseVars, queueVars>>

ChunkNext == RunChunkText

(***************************************************************************)
(* Database rows, queue jobs and the locals of a worker run.                *)
(***************************************************************************)
Docs == {"d1", "d2"}
Workspaces == {"w1", "w2"}
\* One member of each class of DocumentType that parseDocument tells apart:
\* TXT (parseText), PDF (a parser that is a placeholder and throws), PPTX (no
\* case of the switch: the default branch).
DocumentTypes == {"TXT", "PDF", "PPTX"}
FileAlphabet == {"a", " "}

Null == "null"

\* Error messages.
MsgDatabase == "Database error"
MsgUnique == "Unique constraint failed on the fields: (documentId, chunkIndex)"
MsgS3 == "Failed to download file"
MsgParse == "Failed to parse document"
MsgUnsupported == "Unsupported file type"
MsgNotImplemented == "parsing not yet implemented"
MsgEmbeddings == "Failed to generate embeddings"
MsgCollection == "Failed to create vector collection"
MsgUpsert == "Failed to store vectors"

\* queueOptions.defaultJobOptions.attempts; the worker's concurrency.
Attempts == 3
Concurrency == 2

\* The options of the worker's chunkText call (lines 61-64).
WorkerMaxChunkSize == 1000
WorkerChunkOverlap == 200
WorkerChunkOptions ==
    [maxChunkSize |-> WorkerMaxChunkSize, chunkOverlap |-> WorkerChunkOverlap,
     separators |-> DEFAULT_SEPARATORS]

NoDocument ==
    [exists |-> FALSE, workspaceId |-> "w1", type |-> "TXT",
     status |-> "PENDING", deleted |-> FALSE,
     ingestionStatus |-> "PENDING", ingestionError |-> Null,
     chunkCount |-> 0, embeddingCount |-> 0]

NoJob == [state |-> "none", attemptsMade |-> 0]

\* Locals of a run of the processor, with the history the properties read:
\*   written    ingestionStatus values this run persisted, in order
\*   caught     message of the error the catch block caught (Null: none)
\*   thrown     message of the error the run threw to the queue (Null: none)
\*   stage      the step that threw
\*   envFailed  an external call (database, storage, provider) failed
\*   redelivery the job had completed before this run
\*   before     the document's chunk rows when the run started
\*   afterRows  a run of this job that failed had persisted chunk rows
NoRun ==
    [pc |-> "idle", outcome |-> "none", text |-> <<>>, chunks |-> <<>>,
     embeddings |-> 0, i |-> 0, qdrantPoints |-> {}, written |-> <<>>,
     caught |-> Null, thrown |-> Null, stage |-> "none", envFailed |-> FALSE,
     redelivery |-> FALSE, before |-> {}, afterRows |-> FALSE]

NoMetadata == [given |-> FALSE, chunkCount |-> 0, embeddingCount |-> 0]

RowsOf(d) == {c \in chunks : c.documentId = d}

(***************************************************************************)
(* DocumentService.updateIngestionStatus: the row after the update.         *)
(***************************************************************************)
\* updateIngestionStatus that writes zero counters when it is given none.
updateIngestionStatusMutResetCounts(row, status, error, metadata) ==
    LET r1 == [row EXCEPT !.ingestionStatus = status]
        r2 == IF status = "COMPLETED" THEN [r1 EXCEPT !.status = "PROCESSED"] ELSE r1
        r3 == IF status = "FAILED"
              THEN [r2 EXCEPT !.ingestionError = error, !.status = "FAILED"]
              ELSE r2
    IN [r3 EXCEPT !.chunkCount = IF metadata.given THEN metadata.chunkCount ELSE 0,
                  !.embeddingCount = IF metadata.given THEN metadata.embeddingCount ELSE 0]

updateIngestionStatus(row, status, error, metadata) ==
    LET r1 == [row EXCEPT !.ingestionStatus = status]
        r2 == IF status = "COMPLETED"
              THEN [r1 EXCEPT !.status = "PROCESSED"] ELSE r1
        r3 == IF status = "FAILED"
              THEN [r2 EXCEPT !.ingestionError = error, !.status = "FAILED"]
              ELSE r2
    IN IF metadata.given
       THEN [r3 EXCEPT !.chunkCount = metadata.chunkCount,
                       !.embeddingCount = metadata.embeddingCount]
       ELSE r3

(***************************************************************************)
(* FileParser.parseDocument: the switch, then the catch around it.          *)
(***************************************************************************)
ParseSwitch(buffer, type) ==
    CASE type \in {"TXT", "MD"} -> [ok |-> TRUE, text |-> buffer, message |-> Null]
      [] type \in {"PDF", "DOCX", "DOC", "XLSX", "XLS"} ->
            [ok |-> FALSE, text |-> <<>>, message |-> MsgNotImplemented]
      [] OTHER -> [ok |-> FALSE, text |-> <<>>, message |-> MsgUnsupported]

parseDocument(buffer, type) ==
    LET r == ParseSwitch(buffer, type)
    IN IF r.ok THEN r ELSE [ok |-> FALSE, text |-> <<>>, message |-> MsgParse]

(***************************************************************************)
(* The unique index chunks_documentId_chunkIndex_key: an insert of a row    *)
(* whose (documentId, chunkIndex) is taken is rejected.                     *)
(***************************************************************************)
\* The table without the index.
UniqueViolationMutNoIndex(d, chunkIndex) == FALSE

UniqueViolation(d, chunkIndex) ==
    \E c \in chunks : c.documentId = d /\ c.chunkIndex = chunkIndex

(***************************************************************************)
(* DocumentService.createDocument: the row is created PENDING and the job   *)
(* is added to the queue with jobId = document id.                          *)
(***************************************************************************)
createDocument(d, w, type, file) ==
    /\ ~documents[d].exists
    /\ documents' = [documents EXCEPT ![d] =
            [NoDocument EXCEPT !.exists = TRUE, !.workspaceId = w, !.type = type]]
    /\ s3' = [s3 EXCEPT ![d] = file]
    /\ jobs' = [jobs EXCEPT ![d] = [state |-> "waiting", attemptsMade |-> 0]]
    /\ UNCHANGED <<chunks, nextChunkId, collections, points, run, chunkOpts,
                   redelivered>>
    /\ UNCHANGED aside

(***************************************************************************)
(* The processor of documentIngestionWorker, one action per await.          *)
(***************************************************************************)
Active == {d \in Docs : jobs[d].state = "active"}

\* The error `message` was thrown at the step `stage`: control goes to the
\* catch block.
Throw(r, stage, message, env) ==
    [r EXCEPT !.pc = "catch", !.caught = message, !.stage = stage,
              !.envFailed = r.envFailed \/ env]

\* The queue hands the job to the processor, which writes PARSING (39-42).
ProcessJob(d, ok) ==
    /\ jobs[d].state = "waiting"
    /\ Cardinality(Active) < Concurrency
    /\ jobs' = [jobs EXCEPT ![d].state = "active"]
    /\ LET fresh == [NoRun EXCEPT
                        !.outcome = "running",
                        !.redelivery = (run[d].outcome = "returned"),
                        !.before = RowsOf(d),
                        !.afterRows = run[d].afterRows
                                        \/ (run[d].outcome = "threw" /\ RowsOf(d) # {})]
       IN IF ok
          THEN /\ documents' = [documents EXCEPT ![d] =
                     updateIngestionStatus(documents[d], "PARSING", Null, NoMetadata)]
               /\ run' = [run EXCEPT ![d] =
                     [fresh EXCEPT !.pc = "download", !.written = <<"PARSING">>]]
          ELSE /\ run' = [run EXCEPT ![d] = Throw(fresh, "status", MsgDatabase, TRUE)]
               /\ UNCHANGED documents
    /\ UNCHANGED <<s3, chunks, nextChunkId, collections, points, chunkOpts,
                   redelivered>>
    /\ UNCHANGED aside

\* S3Service.downloadFile (46).
Download(d, ok) ==
    /\ run[d].pc = "download"
    /\ run' = [run EXCEPT ![d] =
            IF ok THEN [@ EXCEPT !.pc = "parse"]
            ELSE Throw(@, "download", MsgS3, TRUE)]
    /\ UNCHANGED <<documents, s3, chunks, nextChunkId, collections, points,
                   jobs, chunkOpts, redelivered>>
    /\ UNCHANGED aside

\* parseDocument, normalizeText and chunkText (50-64).  A chunkText that
\* never returns leaves the run where it is, for good.
ParseAndChunk(d) ==
    /\ run[d].pc = "parse"
    /\ \E parsed \in {parseDocument(s3[d], documents[d].type)} :
       \E normalizedText \in {normalizeText(parsed.text)} :
       \E chunked \in {chunkText(normalizedText, chunkOpts)} :
          run' = [run EXCEPT ![d] =
            IF ~parsed.ok THEN Throw(@, "parse", parsed.message, FALSE)
            ELSE IF ~chunked.terminates THEN [@ EXCEPT !.pc = "hung",
                                                        !.text = normalizedText]
            ELSE [@ EXCEPT !.pc = "embed", !.text = normalizedText,
                           !.chunks = chunked.chunks]]
    /\ UNCHANGED <<documents, s3, chunks, nextChunkId, collections, points,
                   jobs, chunkOpts, redelivered>>
    /\ UNCHANGED aside

\* OpenAIService.generateEmbeddings (69): one embedding per text.
Embed(d, ok) ==
    /\ run[d].pc = "embed"
    /\ run' = [run EXCEPT ![d] =
            IF ok THEN [@ EXCEPT !.pc = "collection", !.embeddings = Len(run[d].chunks)]
            ELSE Throw(@, "embed", MsgEmbeddings, TRUE)]
    /\ UNCHANGED <<documents, s3, chunks, nextChunkId, collections, points,
                   jobs, chunkOpts, redelivered>>
    /\ UNCHANGED aside

CollectionName(w) == <<"workspace_", w>>

\* QdrantService.getOrCreateCollection, first await: getCollections (21-27).
GetCollection(d, ok) ==
    /\ run[d].pc = "collection"
    /\ run' = [run EXCEPT ![d] =
            IF ~ok THEN Throw(@, "collection", MsgCollection, TRUE)
            ELSE IF CollectionName(documents[d].workspaceId) \in collections
                 THEN [@ EXCEPT !.pc = "store"]
                 ELSE [@ EXCEPT !.pc = "create"]]
    /\ UNCHANGED <<documents, s3, chunks, nextChunkId, collections, points,
                   jobs, chunkOpts, redelivered>>
    /\ UNCHANGED aside

\* QdrantService.getOrCreateCollection, second await: createCollection
\* (30-35), which Qdrant rejects when the collection exists.
CreateCollection(d, ok) ==
    /\ run[d].pc = "create"
    /\ LET name == CollectionName(documents[d].workspaceId)
       IN IF ok /\ name \notin collections
          THEN /\ collections' = collections \cup {name}
               /\ run' = [run EXCEPT ![d].pc = "store"]
          ELSE /\ run' = [run EXCEPT ![d] =
                        Throw(@, "collection", MsgCollection, ~ok)]
               /\ UNCHANGED collections
    /\ UNCHANGED <<documents, s3, chunks, nextChunkId, points, jobs, chunkOpts,
                   redelivered>>
    /\ UNCHANGED aside

\* An upsert that stores nothing.
upsertVectorsMutNothing(w, d, ids) == {}

\* QdrantService.upsertVectors: the points the upsert leaves in the
\* collection, one per id, with the payload of lines 109-115.
upsertVectors(w, d, ids) ==
    {[collection |-> CollectionName(w), id |-> id,
      documentId |-> d, workspaceId |-> w] : id \in ids}

\* The for loop (78-117), one prisma.chunk.create per step, and after it the
\* batch upsert (120-122).
Store(d, ok) ==
    /\ run[d].pc = "store"
    /\ LET r == run[d]
           w == documents[d].workspaceId
       IN IF r.i < Len(r.chunks)
          THEN LET chunk == r.chunks[r.i + 1]
               IN IF ~ok
                  THEN /\ run' = [run EXCEPT ![d] = Throw(r, "store", MsgDatabase, TRUE)]
                       /\ UNCHANGED <<chunks, nextChunkId, points>>
                  ELSE IF UniqueViolation(d, chunk.chunkIndex)
                  THEN /\ run' = [run EXCEPT ![d] = Throw(r, "store", MsgUnique, FALSE)]
                       /\ UNCHANGED <<chunks, nextChunkId, points>>
                  ELSE /\ chunks' = chunks \cup
                            {[id |-> nextChunkId, documentId |-> d,
                              chunkIndex |-> chunk.chunkIndex,
                              content |-> chunk.text, hasEmbedding |-> TRUE,
                              deleted |-> FALSE]}
                       /\ nextChunkId' = nextChunkId + 1
                       /\ run' = [run EXCEPT ![d] =
                            [r EXCEPT !.i = r.i + 1,
                                      !.qdrantPoints = r.qdrantPoints \cup {nextChunkId}]]
                       /\ UNCHANGED points
          ELSE IF r.qdrantPoints = {}
          THEN /\ run' = [run EXCEPT ![d].pc = "complete"]
               /\ UNCHANGED <<chunks, nextChunkId, points>>
          ELSE IF ok
          THEN /\ points' = points \cup upsertVectors(w, d, r.qdrantPoints)
               /\ run' = [run EXCEPT ![d].pc = "complete"]
               /\ UNCHANGED <<chunks, nextChunkId>>
          ELSE /\ run' = [run EXCEPT ![d] = Throw(r, "upsert", MsgUpsert, TRUE)]
               /\ UNCHANGED <<chunks, nextChunkId, points>>
    /\ UNCHANGED <<documents, s3, collections, jobs, chunkOpts, redelivered>>
    /\ UNCHANGED aside

\* updateIngestionStatus(COMPLETED, counters) (125-136).
Complete(d, ok) ==
    /\ run[d].pc = "complete"
    /\ IF ok
       THEN /\ documents' = [documents EXCEPT ![d] =
                updateIngestionStatus(documents[d], "COMPLETED", Null,
                    [given |-> TRUE, chunkCount |-> Len(run[d].chunks),
                     embeddingCount |-> run[d].embeddings])]
            /\ run' = [run EXCEPT ![d] =
                [@ EXCEPT !.pc = "final", !.written = Append(@, "COMPLETED")]]
       ELSE /\ run' = [run EXCEPT ![d] = Throw(@, "status", MsgDatabase, TRUE)]
            /\ UNCHANGED documents
    /\ UNCHANGED <<s3, chunks, nextChunkId, collections, points, jobs, chunkOpts,
                   redelivered>>
    /\ UNCHANGED aside

\* prisma.document.update of the counters (139-148), then the return: the
\* queue marks the job completed.
FinalUpdate(d, ok) ==
    /\ run[d].pc = "final"
    /\ IF ok
       THEN /\ documents' = [documents EXCEPT
                ![d].chunkCount = Len(run[d].chunks),
                ![d].embeddingCount = run[d].embeddings]
            /\ run' = [run EXCEPT ![d] = [@ EXCEPT !.pc = "idle", !.outcome = "returned"]]
            /\ jobs' = [jobs EXCEPT ![d].state = "completed"]
       ELSE /\ run' = [run EXCEPT ![d] = Throw(@, "final", MsgDatabase, TRUE)]
            /\ UNCHANGED <<documents, jobs>>
    /\ UNCHANGED <<s3, chunks, nextChunkId, collections, points, chunkOpts,
                   redelivered>>
    /\ UNCHANGED aside

\* What the queue does with a job whose processor threw: another attempt
\* while attemptsMade < attempts, else the job is failed.
AfterThrow(job) ==
    [state |-> IF job.attemptsMade + 1 < Attempts THEN "waiting" ELSE "failed",
     attemptsMade |-> job.attemptsMade + 1]

\* The catch block (161-176): updateIngestionStatus(FAILED, message), then
\* the caught error is thrown again.  When the update itself throws, its
\* error is what leaves the processor.
Catch(d, ok) ==
    /\ run[d].pc = "catch"
    /\ IF ok
       THEN /\ documents' = [documents EXCEPT ![d] =
                updateIngestionStatus(documents[d], "FAILED", run[d].caught, NoMetadata)]
            /\ run' = [run EXCEPT ![d] =
                [@ EXCEPT !.pc = "idle", !.outcome = "threw",
                          !.thrown = run[d].caught,
                          !.written = Append(@, "FAILED")]]
       ELSE /\ run' = [run EXCEPT ![d] =
                [@ EXCEPT !.pc = "idle", !.outcome = "threw", !.thrown = MsgDatabase,
                          !.envFailed = TRUE]]
            /\ UNCHANGED documents
    /\ jobs' = [jobs EXCEPT ![d] = AfterThrow(jobs[d])]
    /\ UNCHANGED <<s3, chunks, nextChunkId, collections, points, chunkOpts,
                   redelivered>>
    /\ UNCHANGED aside

\* The queue delivers a completed job again.
Redeliver(d) ==
    /\ jobs[d].state = "completed"
    /\ redelivered < MaxRedeliver
    /\ redelivered' = redelivered + 1
    /\ jobs' = [jobs EXCEPT ![d] = [state |-> "waiting", attemptsMade |-> 0]]
    /\ UNCHANGED <<documents, s3, chunks, nextChunkId, collections, points, run,
                   chunkOpts>>
    /\ UNCHANGED aside

(***************************************************************************)
(* SearchService.combineSearchResults.  A score is the exact fraction       *)
(* [num, den]; the source adds and compares doubles.  For ranks this small  *)
(* two different sums differ by far more than a rounding error and equal    *)
(* sums are sums of the same two terms, so the order of the doubles is the  *)
(* order of the fractions.                                                  *)
(***************************************************************************)
RRF_K == 60

Frac(n, m) == [num |-> n, den |-> m]
FracAdd(x, y) == Frac(x.num * y.den + y.num * x.den, x.den * y.den)
FracEq(x, y) == x.num * y.den = y.num * x.den
FracLess(x, y) == x.num * y.den < y.num * x.den

\* const rrfScore = 1 / (k + index + 1), index 0-based.
RrfScoreMutOffByOne(index) == Frac(1, RRF_K + index)

RrfScore(index) == Frac(1, RRF_K + index + 1)

\* One forEach over a result list: scoreMap is kept as the sequence of its
\* entries in insertion order (the iteration order of a Map).
RECURSIVE Accumulate(_, _, _)
Accumulate(results, index, scoreMap) ==
    IF index >= Len(results) THEN scoreMap
    ELSE LET result == results[index + 1]
             at == {j \in 1..Len(scoreMap) : scoreMap[j].result.chunkId = result.chunkId}
         IN Accumulate(results, index + 1,
                IF at # {}
                THEN [j \in 1..Len(scoreMap) |->
                        IF j \in at
                        THEN [scoreMap[j] EXCEPT !.rrfScore = FracAdd(@, RrfScore(index))]
                        ELSE scoreMap[j]]
                ELSE Append(scoreMap, [result |-> result, rrfScore |-> RrfScore(index)]))

\* Array.prototype.sort with (a, b) => b.rrfScore - a.rrfScore: a stable
\* sort, descending.  An entry goes behind every entry whose score is not
\* below its own.
\* A sort that puts an entry ahead of the entries of equal score.
InsertSortedMutTiesFirst(sorted, e) ==
    LET ahead == {j \in 1..Len(sorted) : FracLess(e.rrfScore, sorted[j].rrfScore)}
        n == IF ahead = {} THEN 0 ELSE CHOOSE j \in ahead : \A m \in ahead : m <= j
    IN SubSeq(sorted, 1, n) \o <<e>> \o SubSeq(sorted, n + 1, Len(sorted))

InsertSorted(sorted, e) ==
    LET ahead == {j \in 1..Len(sorted) : ~FracLess(sorted[j].rrfScore, e.rrfScore)}
        n == IF ahead = {} THEN 0 ELSE CHOOSE j \in ahead : \A m \in ahead : m <= j
    IN SubSeq(sorted, 1, n) \o <<e>> \o SubSeq(sorted, n + 1, Len(sorted))

RECURSIVE SortByScore(_, _)
SortByScore(entries, sorted) ==
    IF entries = <<>> THEN sorted
    ELSE SortByScore(Tail(entries), InsertSorted(sorted, Head(entries)))

combineSearchResults(vector, keyword, limit) ==
    LET scoreMap == Accumulate(keyword, 0, Accumulate(vector, 0, <<>>))
        sorted == SortByScore(scoreMap, <<>>)
        top == SubSeq(sorted, 1, Min(limit, Len(sorted)))
    IN [j \in 1..Len(top) |-> [top[j].result EXCEPT !.score = top[j].rrfScore]]

\* The fusion as a function of its inputs.
ChunkIds == {"A", "B", "C", "D"}
NoScore == Frac(0, 1)
NoDuplicates(q) == \A a, b \in 1..Len(q) : q[a] = q[b] => a = b
ResultLists(n) ==
    {[j \in 1..Len(ids) |-> [chunkId |-> ids[j], score |-> NoScore]] :
        ids \in {q \in SeqUpTo(ChunkIds, n) : NoDuplicates(q)}}
NotFused == [ran |-> FALSE, results |-> <<>>]

FuseInit ==
    /\ vectorResults \in ResultLists(MaxVector)
    /\ keywordResults \in ResultLists(MaxKeyword)
    /\ fuseLimit \in 1..MaxFuseLimit
    /\ fused = NotFused

RunCombine ==
    /\ ~fused.ran
    /\ fused' = [ran |-> TRUE,
                 results |-> combineSearchResults(vectorResults, keywordResults, fuseLimit)]
    /\ UNCHANGED <<vectorResults, keywordResults, fuseLimit, pipelineVars,
                   searchVars, chunkTextVars, queueVars>>

FuseNext == RunCombine

(***************************************************************************)
(* SearchService.search, one action per await.                              *)
(***************************************************************************)
Queries == {<<"a">>}

\* calls made by the request: embedding provider, vector store, generation
\* provider.  `gone` is the set of documents that were soft-deleted when the
\* request arrived.
NoSearch ==
    [pc |-> "idle", outcome |-> "none", workspaceId |-> "w1",
     filter |-> [given |-> FALSE, ids |-> {}], limit |-> 0, query |-> <<>>,
     userId |-> FALSE, emptySet |-> FALSE, documentIds |-> {},
     vector |-> <<>>, results |-> <<>>, total |-> 0,
     embeddingCalls |-> 0, vectorCalls |-> 0, generationCalls |-> 0,
     kind |-> "search", semantic |-> "none", lexical |-> "none",
     keyword |-> <<>>, recorded |-> "none", answer |-> "none", sources |-> <<>>,
     gone |-> {}]

\* prisma.document.findMany with documentWhere (45-67).
CandidateDocuments(w, filter) ==
    {d \in Docs :
        /\ documents[d].exists
        /\ documents[d].workspaceId = w
        /\ ~documents[d].deleted
        /\ documents[d].status = "PROCESSED"
        /\ (filter.given /\ filter.ids # {}) => d \in filter.ids}

\* if (documents.length === 0) return the empty response (69-78).
\* search without the early return.
EarlyReturnMutNever(docs) == FALSE

EarlyReturn(docs) == docs = {}

\* All the orders in which a store may return `n` of the elements of S (all
\* of them when S has fewer).
RECURSIVE Orderings(_, _)
Orderings(S, n) ==
    IF n = 0 \/ S = {} THEN {<<>>}
    ELSE UNION {{<<x>> \o q : q \in Orderings(S \ {x}, n - 1)} : x \in S}

\* content: { contains: query, mode: 'insensitive' }.
Contains(content, query) ==
    \E k \in 0..(Len(content) - Len(query)) :
        SubSeq(content, k + 1, k + Len(query)) = query

AsResult(c) == [chunkId |-> c.id, documentId |-> c.documentId, score |-> NoScore]

\* The chunk rows of the hits, in the order of the hits; a hit without a
\* live row is dropped (103-139).
RECURSIVE ChunkResults(_)
ChunkResults(hits) ==
    IF hits = <<>> THEN <<>>
    ELSE LET found == {c \in chunks : c.id = Head(hits) /\ ~c.deleted}
         IN (IF found = {} THEN <<>> ELSE <<AsResult(CHOOSE c \in found : TRUE)>>)
            \o ChunkResults(Tail(hits))

\* search has its response: the caller of a search request gets it; within
\* askQuestion control is back at line 256.
Respond(s) ==
    IF s.kind = "question"
    THEN [s EXCEPT !.pc = "answer", !.total = Len(s.results)]
    ELSE [s EXCEPT !.pc = "done", !.outcome = "returned", !.total = Len(s.results)]

\* The candidate documents of the request `req` are read (44-80).
Resolve(req) ==
    LET docs == CandidateDocuments(req.workspaceId, req.filter)
        r == [req EXCEPT !.documentIds = docs, !.emptySet = (docs = {}),
                         !.gone = {d \in Docs : documents[d].deleted}]
    IN IF EarlyReturn(docs) THEN Respond(r) ELSE [r EXCEPT !.pc = "embedding"]

\* The request arrives and the candidate documents are read (22-80).  One
\* request is followed from its arrival to its response.
SearchBegin(w, filter, limit, query, userId) ==
    /\ search.pc = "idle"
    /\ search' = Resolve([NoSearch EXCEPT !.workspaceId = w, !.filter = filter,
                                          !.limit = limit, !.query = query,
                                          !.userId = userId])
    /\ UNCHANGED <<queries, pipelineVars, chunkTextVars, fuseVars, queueVars>>

\* OpenAIService.generateEmbedding (89); a failure is caught (140-142).
SearchEmbedding(ok) ==
    /\ search.pc = "embedding"
    /\ search' = [search EXCEPT !.embeddingCalls = @ + 1,
                                !.pc = IF ok THEN "vector" ELSE "keyword",
                                !.semantic = IF ok THEN "none" ELSE "failed"]
    /\ UNCHANGED <<queries, pipelineVars, chunkTextVars, fuseVars, queueVars>>

\* QdrantService.searchVectors for 2 * limit points, then the chunk rows of
\* the hits (90-139); a failure is caught (140-142).
SearchVectors(ok) ==
    /\ search.pc = "vector"
    /\ LET name == CollectionName(search.workspaceId)
           matching == {p \in points :
                          /\ p.collection = name
                          /\ search.filter.given => p.documentId \in search.filter.ids}
       IN IF ok /\ name \in collections
          THEN \E hits \in Orderings({p.id : p \in matching}, 2 * search.limit) :
                 search' = [search EXCEPT !.vectorCalls = @ + 1, !.pc = "keyword",
                                          !.vector = ChunkResults(hits),
                                          !.semantic = "ok"]
          ELSE search' = [search EXCEPT !.vectorCalls = @ + 1, !.pc = "keyword",
                                        !.semantic = "failed"]
    /\ UNCHANGED <<queries, pipelineVars, chunkTextVars, fuseVars, queueVars>>

\* prisma.chunk.findMany for the keyword branch, then the fusion (145-180).
SearchKeyword(ok) ==
    /\ search.pc = "keyword"
    /\ LET matching == {c \in chunks :
                          /\ c.documentId \in search.documentIds
                          /\ c.hasEmbedding
                          /\ ~c.deleted
                          /\ Contains(c.content, search.query)}
       IN IF ok
          THEN \E rows \in Orderings(matching, search.limit) :
                 search' = [search EXCEPT
                    !.pc = "record", !.lexical = "ok",
                    !.keyword = [j \in 1..Len(rows) |-> AsResult(rows[j])],
                    !.results = combineSearchResults(search.vector,
                        [j \in 1..Len(rows) |-> AsResult(rows[j])], search.limit)]
          ELSE search' = [search EXCEPT !.pc = "done", !.outcome = "threw",
                                        !.lexical = "failed"]
    /\ UNCHANGED <<queries, pipelineVars, chunkTextVars, fuseVars, queueVars>>

\* prisma.query.create when there is a user, then the response (183-218).
SearchRecord(ok) ==
    /\ search.pc = "record"
    /\ IF ~search.userId
       THEN /\ search' = Respond(search)
            /\ UNCHANGED queries
       ELSE IF ok
       THEN /\ queries' = Append(queries,
                    [type |-> "SEARCH", workspaceId |-> search.workspaceId,
                     resultCount |-> Len(search.results)])
            /\ search' = Respond([search EXCEPT !.recorded = "ok"])
       ELSE /\ search' = [search EXCEPT !.pc = "done", !.outcome = "threw",
                                        !.recorded = "failed"]
            /\ UNCHANGED queries
    /\ UNCHANGED <<pipelineVars, chunkTextVars, fuseVars, queueVars>>

(***************************************************************************)
(* SearchService.askQuestion, one action per await.                         *)
(***************************************************************************)
FallbackAnswer == "I could not find any relevant information to answer your question."

\* if (searchResults.results.length === 0) (256).
NoResultsMutNever(results) == FALSE

NoResults(results) == results = <<>>

\* The membership check (233-246), then this.search (249-254) up to its
\* candidate documents.
AskBegin(w, filter, limit, question, userId, member) ==
    /\ search.pc = "idle"
    /\ LET req == [NoSearch EXCEPT !.kind = "question", !.workspaceId = w,
                                   !.filter = filter, !.limit = limit,
                                   !.query = question, !.userId = userId]
       IN search' = IF userId /\ ~member
                    THEN [req EXCEPT !.pc = "done", !.outcome = "threw"]
                    ELSE Resolve(req)
    /\ UNCHANGED <<queries, pipelineVars, chunkTextVars, fuseVars, queueVars>>

\* No result: the Query row when there is a user, then the fixed answer
\* (256-284).
AskFallback(ok) ==
    /\ search.pc = "answer"
    /\ NoResults(search.results)
    /\ IF ~search.userId
       THEN /\ search' = [search EXCEPT !.pc = "done", !.outcome = "returned",
                                        !.answer = FallbackAnswer]
            /\ UNCHANGED queries
       ELSE IF ok
       THEN /\ queries' = Append(queries,
                    [type |-> "QUESTION", workspaceId |-> search.workspaceId,
                     resultCount |-> 0])
            /\ search' = [search EXCEPT !.pc = "done", !.outcome = "returned",
                                        !.answer = FallbackAnswer]
       ELSE /\ search' = [search EXCEPT !.pc = "done", !.outcome = "threw"]
            /\ UNCHANGED queries
    /\ UNCHANGED <<pipelineVars, chunkTextVars, fuseVars, queueVars>>

\* OpenAIService.generateAnswer over the results (287-306).
AskGenerate(ok) ==
    /\ search.pc = "answer"
    /\ ~NoResults(search.results)
    /\ search' = IF ok
                 THEN [search EXCEPT !.generationCalls = @ + 1, !.pc = "asked",
                                     !.answer = "generated",
                                     !.sources = search.results]
                 ELSE [search EXCEPT !.generationCalls = @ + 1, !.pc = "done",
                                     !.outcome = "threw"]
    /\ UNCHANGED <<queries, pipelineVars, chunkTextVars, fuseVars, queueVars>>

\* The Query row of the question when there is a user, then the response
\* (310-352).
AskRecord(ok) ==
    /\ search.pc = "asked"
    /\ IF ~search.userId
       THEN /\ search' = [search EXCEPT !.pc = "done", !.outcome = "returned"]
            /\ UNCHANGED queries
       ELSE IF ok
       THEN /\ queries' = Append(queries,
                    [type |-> "QUESTION", workspaceId |-> search.workspaceId,
                     resultCount |-> Len(search.sources)])
            /\ search' = [search EXCEPT !.pc = "done", !.outcome = "returned"]
       ELSE /\ search' = [search EXCEPT !.pc = "done", !.outcome = "threw"]
            /\ UNCHANGED queries
    /\ UNCHANGED <<pipelineVars, chunkTextVars, fuseVars, queueVars>>

(***************************************************************************)
(* DocumentService.deleteDocument: the soft delete (342-380).  The calls    *)
(* that fail (document not found or deleted, not a member) change nothing.  *)
(***************************************************************************)
deleteDocument(d) ==
    /\ documents[d].exists
    /\ ~documents[d].deleted
    /\ documents' = [documents EXCEPT ![d].deleted = TRUE, ![d].status = "DELETED"]
    /\ UNCHANGED <<s3, chunks, nextChunkId, collections, points, jobs, run,
                   chunkOpts, redelivered>>
    /\ UNCHANGED aside

(***************************************************************************)
(* The delivery layer seen job by job.  In the pipeline above the queue is  *)
(* one job per document id; here a job is a member of a set, so that two    *)
(* jobs of one id are a state that can be written down, and what keeps it   *)
(* from happening is the jobId that createDocument hands to queue.add:      *)
(* BullMQ ignores an add whose jobId is the id of a job it still holds.     *)
(***************************************************************************)
NewJob(id, key) == [jobId |-> id, key |-> key, job |-> [state |-> "waiting", attemptsMade |-> 0]]

\* queue.add without the jobId option.
QueueAddMutNoJobId(q, id, key) == q \cup {NewJob(id, key)}

\* documentIngestionQueue.add(..., { jobId: document.id }).
QueueAdd(q, id, key) ==
    IF \E j \in q : j.jobId = id THEN q ELSE q \cup {NewJob(id, key)}

ActiveJobs == {j \in queueJobs : j.job.state = "active"}

\* The document id is enqueued (once more).
Enqueue(d) ==
    /\ enqueued < MaxEnqueue
    /\ enqueued' = enqueued + 1
    /\ queueJobs' = QueueAdd(queueJobs, d, enqueued)
    /\ UNCHANGED <<pipelineVars, searchVars, chunkTextVars, fuseVars>>

\* A worker that is free takes a waiting job (concurrency: 2).
TakeJob(j) ==
    /\ j.job.state = "waiting"
    /\ Cardinality(ActiveJobs) < Concurrency
    /\ queueJobs' = (queueJobs \ {j}) \cup {[j EXCEPT !.job.state = "active"]}
    /\ UNCHANGED <<enqueued, pipelineVars, searchVars, chunkTextVars, fuseVars>>

\* The processor returns, or throws and the queue applies its attempts.
EndJob(j, ok) ==
    /\ j.job.state = "active"
    /\ queueJobs' = (queueJobs \ {j}) \cup
            {IF ok THEN [j EXCEPT !.job.state = "completed"]
                   ELSE [j EXCEPT !.job = AfterThrow(j.job)]}
    /\ UNCHANGED <<enqueued, pipelineVars, searchVars, chunkTextVars, fuseVars>>

\* removeOnComplete / removeOnFail: a finished job leaves the queue, after
\* which its id can be added again.
RemoveJob(j) ==
    /\ j.job.state \in {"completed", "failed"}
    /\ queueJobs' = queueJobs \ {j}
    /\ UNCHANGED <<enqueued, pipelineVars, searchVars, chunkTextVars, fuseVars>>

QueueNext ==
    \/ \E d \in Docs : Enqueue(d)
    \/ \E j \in queueJobs : TakeJob(j) \/ RemoveJob(j)
    \/ \E j \in queueJobs, ok \in BOOLEAN : EndJob(j, ok)

(***************************************************************************)
(* Specifications.                                                          *)
(***************************************************************************)
ChunkIdle == ctText = <<>> /\ ctOpts = WorkerChunkOptions /\ ctOut = NotRun
FuseIdle ==
    vectorResults = <<>> /\ keywordResults = <<>> /\ fuseLimit = 0 /\ fused = NotFused
SearchIdle == search = NoSearch /\ queries = <<>>
QueueIdle == queueJobs = {} /\ enqueued = 0

PipelineStart ==
    /\ documents = [d \in Docs |-> NoDocument]
    /\ s3 = [d \in Docs |-> <<>>]
    /\ chunks = {}
    /\ nextChunkId = 1
    /\ collections = {}
    /\ points = {}
    /\ jobs = [d \in Docs |-> NoJob]
    /\ run = [d \in Docs |-> NoRun]
    /\ redelivered = 0

\* The pipeline as the worker runs it.
Init ==
    /\ PipelineStart /\ chunkOpts = WorkerChunkOptions
    /\ SearchIdle /\ QueueIdle /\ ChunkIdle /\ FuseIdle

\* The documents whose ingestion the pipeline specifications follow.
Ingested == {"d1"}

\* The uploads and the worker for the documents `docs`, the external calls
\* of the worker succeeding or failing as `oks` allows.
PipelineOf(docs, types, files, oks) ==
    \/ \E d \in docs, w \in {"w1"}, t \in types, f \in files :
          createDocument(d, w, t, f)
    \/ \E d \in docs, ok \in oks :
          \/ ProcessJob(d, ok)
          \/ Download(d, ok)
          \/ Embed(d, ok)
          \/ GetCollection(d, ok)
          \/ CreateCollection(d, ok)
          \/ Store(d, ok)
          \/ Complete(d, ok)
          \/ FinalUpdate(d, ok)
          \/ Catch(d, ok)
    \/ \E d \in docs : ParseAndChunk(d) \/ Redeliver(d)

Pipeline(types, files) == PipelineOf(Ingested, types, files, BOOLEAN)

PipelineNext == Pipeline(DocumentTypes, SeqUpTo(FileAlphabet, MaxFileLen))

Next == PipelineNext

Spec == Init /\ [][Next]_vars

\* The next step of the worker on the job of d: the queue hands a waiting job
\* to a free slot, and the processor goes on when the call it awaits has
\* returned or thrown.
WorkerStep(d) ==
    \/ ParseAndChunk(d)
    \/ \E ok \in BOOLEAN :
          \/ ProcessJob(d, ok)
          \/ Download(d, ok)
          \/ Embed(d, ok)
          \/ GetCollection(d, ok)
          \/ CreateCollection(d, ok)
          \/ Store(d, ok)
          \/ Complete(d, ok)
          \/ FinalUpdate(d, ok)
          \/ Catch(d, ok)

\* Every external call returns or throws, and the event loop resumes the
\* processor: a worker step that stays possible is taken.
Fairness == \A d \in Ingested : WF_vars(WorkerStep(d))

\* The pipeline as the worker runs it, its steps taken when they can be.
LiveSpec == Init /\ [][Next]_vars /\ Fairness

\* The pipeline with the worker's literal chunk options generalised to any
\* options without overlap (with which chunkText returns on every text): the
\* behaviours of Spec are among the behaviours of SpecAnyOptions.
NoOverlapOptions ==
    {[maxChunkSize |-> m, chunkOverlap |-> 0, separators |-> DEFAULT_SEPARATORS] :
        m \in 1..MaxChunkSizeB}

InitAnyOptions ==
    /\ PipelineStart
    /\ chunkOpts \in {WorkerChunkOptions} \cup NoOverlapOptions
    /\ SearchIdle /\ QueueIdle /\ ChunkIdle /\ FuseIdle

SpecAnyOptions == InitAnyOptions /\ [][Next]_vars

ChunkSpecInit ==
    /\ ChunkInit
    /\ PipelineStart /\ chunkOpts = WorkerChunkOptions /\ SearchIdle /\ QueueIdle /\ FuseIdle

ChunkSpec == ChunkSpecInit /\ [][ChunkNext]_vars

FuseSpecInit ==
    /\ FuseInit
    /\ PipelineStart /\ chunkOpts = WorkerChunkOptions /\ SearchIdle /\ QueueIdle /\ ChunkIdle

FuseSpec == FuseSpecInit /\ [][FuseNext]_vars

\* The pipeline together with search requests.  The uploads are text files,
\* empty (ingested to the end) or not.
SearchUploads == {<<>>, <<"a">>}
SearchSteps ==
    \/ \E ok \in BOOLEAN : SearchEmbedding(ok)
    \/ \E ok \in BOOLEAN : SearchVectors(ok)
    \/ \E ok \in BOOLEAN : SearchKeyword(ok)
    \/ \E ok \in BOOLEAN : SearchRecord(ok)

SearchNext ==
    \/ \E w \in Workspaces, given \in BOOLEAN, ids \in SUBSET Docs,
          limit \in 1..MaxLimit, query \in Queries, userId \in BOOLEAN :
          SearchBegin(w, [given |-> given, ids |-> IF given THEN ids ELSE {}],
                      limit, query, userId)
    \/ SearchSteps

SearchSpec == Init /\ [][Pipeline({"TXT"}, SearchUploads) \/ SearchNext]_vars

QueueInit ==
    /\ PipelineStart /\ chunkOpts = WorkerChunkOptions
    /\ SearchIdle /\ QueueIdle /\ ChunkIdle /\ FuseIdle

QueueSpec == QueueInit /\ [][QueueNext]_vars

\* Retrieval over two documents of one workspace: text files, empty or not,
\* are uploaded and ingested with every external call of the worker
\* succeeding and with the worker's chunk options less the overlap (so that
\* chunkText returns); documents are soft-deleted; one search or question is
\* followed from its arrival to its response.
Retrieved == {"d1", "d2"}
RetrievalFilters == {[given |-> FALSE, ids |-> {}], [given |-> TRUE, ids |-> {"d2"}]}

RetrievalInit ==
    /\ PipelineStart
    /\ chunkOpts = [WorkerChunkOptions EXCEPT !.chunkOverlap = 0]
    /\ SearchIdle /\ QueueIdle /\ ChunkIdle /\ FuseIdle

RetrievalNext ==
    \/ \E d \in Retrieved, f \in SearchUploads : createDocument(d, "w1", "TXT", f)
    \/ \E d \in Retrieved :
          \/ ProcessJob(d, TRUE)
          \/ Download(d, TRUE)
          \/ ParseAndChunk(d)
          \/ Embed(d, TRUE)
          \/ GetCollection(d, TRUE)
          \/ CreateCollection(d, TRUE)
          \/ Store(d, TRUE)
          \/ Complete(d, TRUE)
          \/ FinalUpdate(d, TRUE)
          \/ deleteDocument(d)
    \/ \E filter \in RetrievalFilters, limit \in 1..MaxLimit, userId \in BOOLEAN :
          SearchBegin("w1", filter, limit, <<"a">>, userId)
    \/ \E filter \in RetrievalFilters, limit \in 1..MaxLimit, userId \in BOOLEAN,
          member \in BOOLEAN :
          AskBegin("w1", filter, limit, <<"a">>, userId, member)
    \/ SearchSteps
    \/ \E ok \in BOOLEAN : AskFallback(ok)
    \/ \E ok \in BOOLEAN : AskGenerate(ok)
    \/ \E ok \in BOOLEAN : AskRecord(ok)

RetrievalSpec == RetrievalInit /\ [][RetrievalNext]_vars

(***************************************************************************)
(* Properties.                                                              *)
(***************************************************************************)
Ended(d) == run[d].outcome \in {"returned", "threw"}
Last(q) == q[Len(q)]
\* The catch block's FAILED write went through.
FailureRecorded(d) ==
    run[d].outcome = "threw" /\ run[d].written # <<>> /\ Last(run[d].written) = "FAILED"

\* C1: when a stage of a run throws, the run ends with the Document FAILED,
\* ingestionError the thrown error's message, and the same error thrown to
\* the queue.
C1_ThrowLeavesFailed ==
    \A d \in Docs : run[d].outcome = "threw" =>
        /\ documents[d].ingestionStatus = "FAILED"
        /\ documents[d].ingestionError = run[d].caught
        /\ run[d].thrown = run[d].caught

\* What holds of every run that threw: the same when the catch block's own
\* FAILED write goes through; when that write throws, its error is what
\* reaches the queue.
ThrowLeavesFailedIfRecorded ==
    \A d \in Docs : run[d].outcome = "threw" =>
        IF FailureRecorded(d)
        THEN /\ documents[d].ingestionStatus = "FAILED"
             /\ documents[d].ingestionError = run[d].caught
             /\ run[d].thrown = run[d].caught
        ELSE run[d].thrown = MsgDatabase

\* An embedding failure recorded on the Document and thrown to the queue.
C1_Witness ==
    \E d \in Docs :
        /\ run[d].outcome = "threw"
        /\ run[d].stage = "embed"
        /\ documents[d].ingestionError = MsgEmbeddings
        /\ run[d].thrown = MsgEmbeddings

\* C3: a re-delivered job for a COMPLETED document is a no-op: when the
\* re-run has ended the Document is still COMPLETED (status PROCESSED) and
\* its chunk rows are the rows it had.
C3_RedeliveryIsNoOp ==
    \A d \in Docs : (run[d].redelivery /\ Ended(d)) =>
        /\ documents[d].ingestionStatus = "COMPLETED"
        /\ documents[d].status = "PROCESSED"
        /\ RowsOf(d) = run[d].before

\* One chunk row for each of the run's chunk indices, and no other row.
OneRowPerIndex(d) ==
    /\ \A k \in 0..(Len(run[d].chunks) - 1) :
          Cardinality({c \in RowsOf(d) : c.chunkIndex = k}) = 1
    /\ \A c \in RowsOf(d) : c.chunkIndex < Len(run[d].chunks)

C5_UniqueDocumentChunkIndex ==
    \A a, b \in chunks :
        (a.documentId = b.documentId /\ a.chunkIndex = b.chunkIndex) => a = b

\* A retry met the rows of an earlier run: its insert was rejected.
C5_Witness ==
    \E d \in Docs :
        /\ run[d].caught = MsgUnique
        /\ Cardinality(RowsOf(d)) >= 2

\* C6: a run that reaches COMPLETED has persisted PARSING, CHUNKING,
\* EMBEDDING, INDEXING and COMPLETED, in this order.
C6_StagesPersistedInOrder ==
    \A d \in Docs : run[d].outcome = "returned" =>
        run[d].written = <<"PARSING", "CHUNKING", "EMBEDDING", "INDEXING", "COMPLETED">>

StatusOrder == <<"PENDING", "PARSING", "CHUNKING", "EMBEDDING", "INDEXING", "COMPLETED">>
Rank(st) == CHOOSE k \in 1..Len(StatusOrder) : StatusOrder[k] = st
InOrder(st) == \E k \in 1..Len(StatusOrder) : StatusOrder[k] = st
Terminal == {"COMPLETED", "FAILED"}

\* C7: over deliveries, retries and re-deliveries the
\* ingestionStatus never moves backward in the order PENDING .. COMPLETED
\* and never leaves COMPLETED or FAILED for a non-terminal status.
C7_StatusMonotonic ==
    [][\A d \in Docs :
        LET old == documents[d].ingestionStatus
            new == documents'[d].ingestionStatus
        IN /\ (InOrder(old) /\ InOrder(new)) => Rank(new) >= Rank(old)
           /\ old \in Terminal => new \in Terminal]_vars

\* What holds of every step: ingestionStatus changes only forward in the
\* order, or to FAILED, except for the first write of a new run, which sets
\* PARSING whatever the status was.
StatusMonotonicWithinRun ==
    [][\A d \in Docs :
        LET old == documents[d].ingestionStatus
            new == documents'[d].ingestionStatus
        IN new # old =>
            \/ new = "PARSING" /\ run[d].pc = "idle" /\ run'[d].written = <<"PARSING">>
            \/ new = "FAILED"
            \/ InOrder(old) /\ InOrder(new) /\ Rank(new) > Rank(old)]_vars

\* A retry has put a FAILED document back to PARSING.
C7_Witness ==
    \E d \in Docs :
        /\ jobs[d].attemptsMade >= 1
        /\ run[d].written = <<"PARSING">>
        /\ documents[d].ingestionStatus = "PARSING"
        /\ documents[d].ingestionError # Null

\* C8: a job whose document type has no extractor fails at parsing with the
\* unsupported-type error; the Document ends FAILED with that message as
\* ingestionError, and no chunk row is persisted.
C8_UnsupportedTypeRecorded ==
    \A d \in Docs :
        (documents[d].type = "PPTX" /\ run[d].stage = "parse" /\ FailureRecorded(d)) =>
            /\ documents[d].ingestionStatus = "FAILED"
            /\ documents[d].ingestionError = MsgUnsupported
            /\ RowsOf(d) = {}

\* C2: for every text and every options with 0 <= chunkOverlap <
\* maxChunkSize, chunkText terminates (the cursor reaches the text length and
\* the function returns).
C2_ChunkTextTerminates ==
    (ctOut.ran /\ 0 <= ctOpts.chunkOverlap
               /\ ctOpts.chunkOverlap < ctOpts.maxChunkSize)
        => ctOut.terminates

\* The score the fusion is to give: the sum, over the lists holding the
\* chunk at 0-based rank r, of 1 / (60 + r + 1).
Contribution(list, id) ==
    LET at == {r \in 0..(Len(list) - 1) : list[r + 1].chunkId = id}
    IN IF at = {} THEN Frac(0, 1) ELSE Frac(1, 60 + (CHOOSE r \in at : TRUE) + 1)
FusionScore(id) ==
    FracAdd(Contribution(vectorResults, id), Contribution(keywordResults, id))
IdsOf(list) == {list[j].chunkId : j \in 1..Len(list)}
IsExample ==
    /\ [j \in 1..Len(vectorResults) |-> vectorResults[j].chunkId] = <<"A", "B", "C">>
    /\ [j \in 1..Len(keywordResults) |-> keywordResults[j].chunkId] = <<"B", "D">>

\* C9: the fusion returns each chunk once with the score that is the sum of
\* 1/(60 + r + 1) over the lists holding it at 0-based rank r, in descending
\* order of that score, the best `limit` of them; for [A,B,C] and [B,D], B
\* scores 1/61 + 1/62 and stands before A, which scores 1/61.
C9_FusionScoresAndOrder ==
    fused.ran =>
        LET out == fused.results
            all == IdsOf(vectorResults) \cup IdsOf(keywordResults)
        IN /\ Len(out) = Min(fuseLimit, Cardinality(all))
           /\ IdsOf(out) \subseteq all
           /\ \A a, b \in 1..Len(out) : out[a].chunkId = out[b].chunkId => a = b
           /\ \A j \in 1..Len(out) : FracEq(out[j].score, FusionScore(out[j].chunkId))
           /\ \A a, b \in 1..Len(out) :
                a < b => ~FracLess(out[a].score, out[b].score)
           /\ \A id \in all \ IdsOf(out), j \in 1..Len(out) :
                ~FracLess(out[j].score, FusionScore(id))
           /\ (IsExample /\ fuseLimit >= 2) =>
                /\ out[1].chunkId = "B"
                /\ out[2].chunkId = "A"
                /\ FracEq(out[1].score, Frac(61 + 62, 61 * 62))
                /\ FracEq(out[2].score, Frac(1, 61))
                /\ FracLess(out[2].score, out[1].score)

C9_Witness ==
    /\ fused.ran
    /\ IsExample
    /\ fuseLimit = 4
    /\ [j \in 1..Len(fused.results) |-> fused.results[j].chunkId] = <<"B", "A", "D", "C">>

\* The candidate document set of a request: the documents of the workspace
\* that are not deleted and have status processed, restricted to the ids of
\* the filter when one is given (a filter that names no id restricts
\* nothing).
CandidateSet(w, filter) ==
    {d \in Docs :
        /\ documents[d].exists /\ documents[d].workspaceId = w
        /\ ~documents[d].deleted /\ documents[d].status = "PROCESSED"}
    \cap (IF filter.given /\ filter.ids # {} THEN filter.ids ELSE Docs)
Arrives == search.pc = "idle" /\ search'.pc # "idle"

LexicalOnly(keyword, limit) ==
    [j \in 1..Min(limit, Len(keyword)) |-> [keyword[j] EXCEPT !.score = Frac(1, 60 + j)]]
SemanticFailedLexicalOk ==
    /\ search.kind = "search"
    /\ search.semantic = "failed"
    /\ search.lexical = "ok"

\* C11: when the semantic branch of a search fails and the lexical branch
\* succeeds, search raises no error and returns the fusion of the lexical
\* results alone.
C11_SemanticFailureFallsBack ==
    (search.pc = "done" /\ SemanticFailedLexicalOk) =>
        /\ search.outcome = "returned"
        /\ search.results = LexicalOnly(search.keyword, search.limit)

\* What holds of such a search: its results are the fusion of the lexical
\* results alone, and it raises an error only when the write of the Query
\* row fails.
SemanticFailureFallsBackUnlessRecordFails ==
    (search.pc \in {"record", "done"} /\ SemanticFailedLexicalOk) =>
        /\ search.results = LexicalOnly(search.keyword, search.limit)
        /\ search.pc = "done" =>
              \/ search.outcome = "returned"
              \/ search.userId /\ search.recorded = "failed"

\* The embedding call failed, the lexical branch ran, and the search
\* returned.
C11_Witness ==
    /\ search.pc = "done" /\ SemanticFailedLexicalOk
    /\ search.embeddingCalls = 1 /\ search.vectorCalls = 0
    /\ search.outcome = "returned"

\* C17: when the write of the Query row fails, search still returns its
\* results to the caller without error.
C17_QueryRecordFireAndForget ==
    (search.pc = "done" /\ search.kind = "search" /\ search.recorded = "failed") =>
        search.outcome = "returned"

\* A search with a user whose Query row was written.
C17_Witness ==
    /\ search.pc = "done" /\ search.kind = "search" /\ search.userId
    /\ search.recorded = "ok" /\ search.outcome = "returned"
    /\ Len(queries) = 1

QuestionFallbackReached ==
    /\ search.kind = "question"
    /\ search.pc = "done" /\ search.outcome = "returned"
    /\ ~search.emptySet /\ search.results = <<>>
    /\ search.answer = FallbackAnswer

DeletedDocumentNotInLexical ==
    \A j \in 1..Len(search.keyword) : search.keyword[j].documentId \notin search.gone

RunsOf(d) == {j \in queueJobs : j.jobId = d /\ j.job.state = "active"}

\* C14: at most one ingest run is active for a document id, however often
\* the id is enqueued, with two jobs processed at a time.
C14_OneActiveRunPerDocument ==
    \A d \in Docs : Cardinality(RunsOf(d)) <= 1

\* Two runs at once, of different documents, one of them enqueued twice.
C14_Witness ==
    /\ Cardinality(ActiveJobs) = 2
    /\ enqueued = 3

\* A job is run at most 3 times, and a job that failed its last attempt is
\* not taken again.
AtMostThreeRuns(d) ==
    /\ jobs[d].attemptsMade <= 3
    /\ jobs[d].state = "active" => jobs[d].attemptsMade < 3
    /\ jobs[d].state = "failed" => (jobs[d].attemptsMade = 3 /\ run[d].pc = "idle")

\* C15: an ingestion job is run at most 3 times; when its last attempt has
\* failed it is not run again and the Document's ingestionStatus is FAILED
\* from then on.
C15_ThreeAttemptsThenFailed ==
    \A d \in Docs :
        /\ AtMostThreeRuns(d)
        /\ jobs[d].state = "failed" => documents[d].ingestionStatus = "FAILED"

\* What holds: at most 3 runs, and FAILED after the last one when its catch
\* block's write went through.
ThreeAttemptsThenFailedIfRecorded ==
    \A d \in Docs :
        /\ AtMostThreeRuns(d)
        /\ (jobs[d].state = "failed" /\ FailureRecorded(d)) =>
              documents[d].ingestionStatus = "FAILED"

\* A job that failed three times, its Document FAILED.
C15_Witness ==
    \E d \in Docs :
        /\ jobs[d].state = "failed" /\ jobs[d].attemptsMade = 3
        /\ documents[d].ingestionStatus = "FAILED"

\* C16: once a document is COMPLETED, a re-run of its ingestion (the
\* re-delivered job and its retries), whether it succeeds or fails, leaves
\* the Document's chunkCount as it was.
C16_RerunKeepsChunkCount ==
    [][\A d \in Ingested :
        (documents[d].ingestionStatus = "COMPLETED" \/ redelivered > 0) =>
            documents'[d].chunkCount = documents[d].chunkCount]_vars

\* The re-run of a document with chunks has failed, the count is as it was.
C16_Witness ==
    \E d \in Ingested :
        /\ run[d].redelivery /\ run[d].outcome = "threw"
        /\ documents[d].chunkCount > 0
        /\ documents[d].chunkCount = Cardinality(RowsOf(d))

\* The re-run of a document has succeeded.
RerunSucceeded ==
    \E d \in Ingested : run[d].redelivery /\ run[d].outcome = "returned"

ValidOptions == 0 <= ctOpts.chunkOverlap /\ ctOpts.chunkOverlap < ctOpts.maxChunkSize

\* C18: for a non-empty text shorter than maxChunkSize chunkText returns
\* exactly one chunk, from 0 to the text length; for the empty text it
\* returns no chunk.
C18_ShortTextOneChunk ==
    (ctOut.ran /\ ValidOptions) =>
        /\ ctText = <<>> => (ctOut.terminates /\ ctOut.chunks = <<>>)
        /\ (ctText # <<>> /\ Len(ctText) < ctOpts.maxChunkSize) =>
              /\ ctOut.terminates
              /\ Len(ctOut.chunks) = 1
              /\ ctOut.chunks[1].startIndex = 0
              /\ ctOut.chunks[1].endIndex = Len(ctText)

\* What holds: the same when chunkOverlap = 0 or the text is empty.
ShortTextOneChunkWithoutOverlap ==
    (ctOut.ran /\ ValidOptions /\ (ctOpts.chunkOverlap = 0 \/ ctText = <<>>)) =>
        /\ ctText = <<>> => (ctOut.terminates /\ ctOut.chunks = <<>>)
        /\ (ctText # <<>> /\ Len(ctText) < ctOpts.maxChunkSize) =>
              /\ ctOut.terminates
              /\ Len(ctOut.chunks) = 1
              /\ ctOut.chunks[1].startIndex = 0
              /\ ctOut.chunks[1].endIndex = Len(ctText)

\* A short text returned as one chunk.
C18_Witness ==
    /\ ctOut.ran /\ ValidOptions /\ ctOut.terminates
    /\ Len(ctText) = 2 /\ ctOpts.maxChunkSize = 3
    /\ Len(ctOut.chunks) = 1

\* C19: called with chunkOverlap >= maxChunkSize, chunkText does not loop
\* without end (it has no path that rejects the options, so it must return).
C19_OverlapNotBelowSizeEnds ==
    (ctOut.ran /\ ctOpts.chunkOverlap >= ctOpts.maxChunkSize) => ctOut.terminates

\* C20: the chunks chunkText returns have chunkIndex 0, 1, 2, ... in list
\* order; the first starts at 0; each later one starts after the start of
\* the one before it and not after its end; the last ends at the text
\* length.
C20_ChunksOrderedGapFree ==
    (ctOut.ran /\ ctOut.terminates) =>
        LET out == ctOut.chunks
        IN /\ \A j \in 1..Len(out) : out[j].chunkIndex = j - 1
           /\ ctText # <<>> => out # <<>>
           /\ out # <<>> =>
                (out[1].startIndex = 0 /\ out[Len(out)].endIndex = Len(ctText))
           /\ \A j \in 2..Len(out) :
                /\ out[j].startIndex > out[j - 1].startIndex
                /\ out[j].startIndex <= out[j - 1].endIndex

\* Two chunks, the first ended at a space beyond half of maxChunkSize.
C20_Witness ==
    /\ ctOut.ran /\ ctOut.terminates
    /\ Len(ctOut.chunks) = 2
    /\ ctOpts.maxChunkSize = 3
    /\ ctOut.chunks[1].endIndex = 3
    /\ ctText[3] = " "
    /\ Len(ctText) = 5

\* The last run of d threw at parseDocument on a type that has no case in
\* its switch.
UnsupportedFailure(d) ==
    /\ run[d].outcome = "threw"
    /\ run[d].stage = "parse"
    /\ ParseSwitch(s3[d], documents[d].type).message = MsgUnsupported

\* C21: after a run failed because the declared type is unsupported, the
\* queue does not hold the job for another attempt.
C21_UnsupportedTypeNotRetried ==
    \A d \in Docs : UnsupportedFailure(d) => jobs[d].state # "waiting"

\* The first attempt on a PPTX document failed at the parser.
C21_Witness ==
    \E d \in Docs : UnsupportedFailure(d) /\ jobs[d].attemptsMade = 1

\* What holds: the job of an unsupported type is attempted three times, each
\* attempt failing, and is then failed by the queue.
UnsupportedTypeFailsAfterAttempts ==
    \A d \in Docs :
        UnsupportedFailure(d) =>
            (jobs[d].state = "failed" <=> jobs[d].attemptsMade = Attempts)

\* The request has its results (search returned, or askQuestion has them).
HasResults == search.pc \in {"answer", "asked"} \/ search.outcome = "returned"

ResultDocuments(list) == {list[j].documentId : j \in 1..Len(list)}

LexicalWithinCandidatesAndFilterKept ==
    /\ ResultDocuments(search.keyword) \subseteq search.documentIds
    /\ (HasResults /\ search.filter.given) =>
            ResultDocuments(search.results) \subseteq search.filter.ids

PosIn(list, id) ==
    LET at == {j \in 1..Len(list) : list[j].chunkId = id}
    IN IF at = {} THEN 0 ELSE CHOOSE j \in at : TRUE

RankBefore(x, y) == x # 0 /\ (y = 0 \/ x < y)

IdRank(id) == CASE id = "A" -> 1 [] id = "B" -> 2 [] id = "C" -> 3 [] OTHER -> 4

\* The order among chunks of equal fused score: semantic rank (present
\* before absent), then lexical rank, then chunk id.
TieBefore(x, y) ==
    LET sx == PosIn(vectorResults, x)
        sy == PosIn(vectorResults, y)
        lx == PosIn(keywordResults, x)
        ly == PosIn(keywordResults, y)
    IN IF sx # sy THEN RankBefore(sx, sy)
       ELSE IF lx # ly THEN RankBefore(lx, ly)
       ELSE IdRank(x) < IdRank(y)

\* C23: among chunks of equal fused score the output follows the fixed order
\* semantic rank, then lexical rank, then chunk id, for the chunks returned
\* and for a chunk cut off by the limit against the ones returned.
C23_TiesInFixedOrder ==
    fused.ran =>
        LET out == fused.results
            all == IdsOf(vectorResults) \cup IdsOf(keywordResults)
        IN /\ \A a, b \in 1..Len(out) :
                (a < b /\ FracEq(out[a].score, out[b].score)) =>
                    TieBefore(out[a].chunkId, out[b].chunkId)
           /\ \A id \in all \ IdsOf(out), j \in 1..Len(out) :
                FracEq(out[j].score, FusionScore(id)) => TieBefore(out[j].chunkId, id)

\* Two ties in one output: A and B each hold rank 0 in one list and rank 1
\* in the other, C is third in the semantic list only and D third in the
\* lexical list only.
C23_Witness ==
    /\ fused.ran
    /\ [j \in 1..Len(vectorResults) |-> vectorResults[j].chunkId] = <<"A", "B", "C">>
    /\ [j \in 1..Len(keywordResults) |-> keywordResults[j].chunkId] = <<"B", "A", "D">>
    /\ [j \in 1..Len(fused.results) |-> fused.results[j].chunkId] = <<"A", "B", "C", "D">>

\* C24: a search or question request of a user that returned has created
\* exactly one Query record (one request is followed per behaviour, so the
\* table holds the records of that request).
C24_OneQueryRecordPerRequest ==
    (search.pc = "done" /\ search.outcome = "returned" /\ search.userId) =>
        Len(queries) = 1

\* What holds: a Query record is never modified or removed, the table only
\* grows at its end.
QueryRecordsNeverModified ==
    [][Len(queries') >= Len(queries)
       /\ SubSeq(queries', 1, Len(queries)) = queries]_vars

\* What holds: a search writes one record unless it found no candidate
\* document, and then none; a question writes the record of its search and
\* one of its own.
QueryRecordsAsWritten ==
    (search.pc = "done" /\ search.outcome = "returned" /\ search.userId) =>
        Len(queries) = (IF search.emptySet THEN 0 ELSE 1)
                       + (IF search.kind = "question" THEN 1 ELSE 0)

\* A user's question was answered from its results and left two records,
\* one of type SEARCH and one of type QUESTION.
C24_Witness ==
    /\ search.pc = "done" /\ search.outcome = "returned" /\ search.userId
    /\ search.kind = "question" /\ search.answer = "generated"
    /\ Len(queries) = 2
    /\ queries[1].type = "SEARCH" /\ queries[2].type = "QUESTION"

PointIdsOf(d) ==
    {p.id : p \in {q \in points :
                     /\ q.documentId = d
                     /\ q.collection = CollectionName(documents[d].workspaceId)}}

CollectionCallRejected(d) ==
    /\ run[d].stage = "collection"
    /\ run[d].caught = MsgCollection
    /\ ~run[d].envFailed

\* C26: getOrCreateCollection is an idempotent create-if-absent: while the
\* vector store answers, no call of it fails, whatever other run of the
\* workspace it interleaves with, and the workspace has its one collection
\* once a call has returned.
C26_EnsureCollectionIdempotent ==
    \A d \in Docs :
        /\ ~CollectionCallRejected(d)
        /\ run[d].pc \in {"store", "complete", "final"} =>
                CollectionName(documents[d].workspaceId) \in collections

\* Two runs of one workspace both found the collection absent; one created
\* it and the other's create was rejected.
C26_Witness ==
    \E d, e \in Docs :
        /\ d # e
        /\ documents[d].workspaceId = documents[e].workspaceId
        /\ CollectionCallRejected(d)
        /\ run[e].pc \in {"store", "complete", "final", "idle"}
        /\ CollectionName(documents[e].workspaceId) \in collections

HasPoint(c) ==
    \E p \in points :
        /\ p.id = c.id
        /\ p.collection = CollectionName(documents[c.documentId].workspaceId)

C28_RunEventuallyEnds ==
    \A d \in Docs :
        (run[d].outcome = "running") ~>
            (Ended(d) /\ documents[d].ingestionStatus \in {"COMPLETED", "FAILED"})

\* A run is inside a chunkText call that does not return, the Document in
\* PARSING.
C28_Witness ==
    \E d \in Docs :
        /\ run[d].pc = "hung"
        /\ run[d].outcome = "running"
        /\ documents[d].ingestionStatus = "PARSING"

\* The first half of C28 alone, which fails as well: a run that starts
\* eventually ends.  The only run that does not is the one inside chunkText.
EveryRunEnds ==
    \A d \in Docs : (run[d].outcome = "running") ~> Ended(d)

\* What holds: a run that starts ends or enters a chunkText call that does
\* not return.
RunEndsOrHangsInChunkText ==
    \A d \in Docs :
        (run[d].outcome = "running") ~> (Ended(d) \/ run[d].pc = "hung")

\* C29: a Document's ingestionError is non-null only while its
\* ingestionStatus is FAILED.
C29_ErrorOnlyWhenFailed ==
    \A d \in Docs :
        documents[d].ingestionError # Null => documents[d].ingestionStatus = "FAILED"

\* A retry ended COMPLETED and the message of the earlier failed attempt is
\* still on the Document.
C29_Witness ==
    \E d \in Docs :
        /\ run[d].outcome = "returned" /\ ~run[d].redelivery
        /\ jobs[d].attemptsMade > 0
        /\ documents[d].ingestionStatus = "COMPLETED"
        /\ documents[d].ingestionError # Null

\* C30: once deleteDocument has completed for a document its status stays
\* DELETED: no later write of the pipeline makes it PROCESSED or FAILED.
C30_DeletedStaysDeleted ==
    \A d \in Docs : documents[d].deleted => documents[d].status = "DELETED"

\* A document was soft-deleted while its ingest run was in flight, and the
\* run then completed.
C30_Witness ==
    \E d \in Docs :
        /\ documents[d].deleted
        /\ run[d].outcome = "returned"
        /\ documents[d].status = "PROCESSED"

\* What holds: the soft delete itself is never undone.
DeletedFlagKept ==
    [][\A d \in Docs : documents[d].deleted => documents'[d].deleted]_vars

====
